---- MODULE Spec2Model ----
(***************************************************************************)
(* Proposal lifecycle of the quote-comparison marketplace.                 *)
(*                                                                         *)
(* The state is the part of the database the proposal routes read and      *)
(* write: the request row (status, closedAt) and the request_companies     *)
(* rows (status, estimatedCost, respondedAt, selectedAt), one per          *)
(* (request, company) pair.  Every route handler is a sequence of awaited  *)
(* database calls; each awaited call is one atomic step, and the local     *)
(* checks that follow a read are evaluated in the step of that read.       *)
(* Handlers run in concurrent slots, so the steps of different handlers    *)
(* interleave freely.                                                      *)
(***************************************************************************)
EXTENDS Integers, FiniteSets, Sequences, TLC

\* ------------------------------------------------------------- bounds
\* Largest value of the wall clock read by `new Date()`.
MaxClock == 2

\* ------------------------------------------------------------ fixture
\* Two concurrent route-handler invocations.
Procs == {"h1", "h2"}

Requests == {"r1"}

\* c0 is the one company that is not verified.
Companies == {"c0", "c1", "c2"}

isVerified == [c \in Companies |-> c # "c0"]

Users == {"alice", "bob", "carol", "dave"}

NoSession == "anonymous"

Sessions == Users \cup {NoSession}

\* Sessions that call the owner-side routes: the owner, another user, nobody.
Callers == {"alice", "bob", NoSession}

\* alice owns the request; bob, carol and dave are company members.
requestUser == [r \in Requests |-> "alice"]

NoCompany == "none"

companyUsers == [u \in Users |->
    CASE u = "bob" -> "c1"
      [] u = "carol" -> "c2"
      [] u = "dave" -> "c0"
      [] OTHER -> NoCompany]

\* A request_companies row is identified by its (requestId, companyId) pair.
Keys == [requestId : Requests, companyId : Companies]

RequestStatus == {"DRAFT", "PUBLISHED", "CLOSED", "CANCELLED"}

RequestCompanyStatus == {"PENDING", "RESPONDED", "SELECTED", "REJECTED"}

\* Value of a nullable column that holds NULL.
Null == 0

\* Status of a pair that has no row.
NoRow == "NONE"

EmptyRow == [status |-> NoRow, estimatedCost |-> Null,
             respondedAt |-> Null, selectedAt |-> Null]

\* Bodies a client can send to PATCH /api/proposals/[id].
PatchBodies == RequestCompanyStatus \cup {"INVALID"}

\* estimatedCost of the bodies a client can send to POST
\* /api/requests/[id]/proposals: 0 fails the schema's positive(), 1 passes.
\* estimatedDuration, proposal and attachments come from the same body and are
\* written by the same statement, so estimatedCost stands for all four.
Costs == {0, 1}

\* ------------------------------------------------------------- state
VARIABLES
    reqStatus,    \* requests.status
    closedAt,     \* requests.closedAt
    proposals,    \* request_companies rows by key
    now,          \* the wall clock
    pc,           \* per slot: the await it is suspended at, or "idle"
    call,         \* per slot: the operation it runs and its arguments
    pairRows,     \* request_companies as the upsert statement sees it:
                  \* the number of rows stored for each pair
    ups,          \* per slot: the statement of the upsert it is about to send
    args,         \* the arguments of the matching function under test
    ret,          \* what the matching function returned
    reviewRows,   \* the reviews table, in order of creation
    stats,        \* companies.averageRating and reviewCount of the reviewed company
    rv,           \* per slot: the review operation it runs and where it stands
    reqData       \* requests.title and budgetMax, two of the editable columns

dbVars == <<reqStatus, closedAt, proposals>>

\* The state of the proposal routes.
routeVars == <<reqStatus, closedAt, proposals, now, pc, call>>

\* The state of the upsert statement and of the matching functions: the
\* proposal routes leave it alone.
tableVars == <<pairRows, ups>>

matchVars == <<args, ret>>

\* The state of the review routes.
reviewVars == <<reviewRows, stats, rv>>

vars == <<reqStatus, closedAt, proposals, now, pc, call, pairRows, ups, args, ret,
          reviewRows, stats, rv, reqData>>

\* Responses: the HTTP status a handler returns.  A handler's checks evaluate
\* to a response or to the await the handler goes on to.
Responses == {"r200", "r201", "r400", "r401", "r403", "r404", "r500"}

\* Responses that refuse the call.
Refusals == {"r400", "r401", "r403", "r404"}


NoKey == [requestId |-> "none", companyId |-> "none"]

NoCall == [op |-> "none", key |-> NoKey, body |-> "none"]

Call(op, key, body) == [op |-> op, key |-> key, body |-> body]

\* No upsert statement is in flight.
NoUpsert == [at |-> "idle", key |-> NoKey]

\* No matching function has been called, none has returned.
NoArgs == [fn |-> "none"]

NoRet == [fn |-> "none"]

\* Titles a request can carry; each passes the schema's length limits.
Titles == {"Website renewal", "Mobile app"}

\* No review operation runs in the slot.
NoReviewCall == [pc |-> "idle", op |-> "none", id |-> 0, session |-> "none",
                 rating |-> 0, isPublished |-> "none", total |-> 0, count |-> 0]

\* A new request in an empty database, every handler slot free.
Quiescent ==
    /\ reqStatus = [r \in Requests |-> "DRAFT"]
    /\ closedAt = [r \in Requests |-> Null]
    /\ proposals = [k \in Keys |-> EmptyRow]
    /\ now = 1
    /\ pc = [h \in Procs |-> "idle"]
    /\ call = [h \in Procs |-> NoCall]
    /\ pairRows = [k \in Keys |-> 0]
    /\ ups = [h \in Procs |-> NoUpsert]
    /\ reviewRows = <<>>
    /\ stats = [averageRating |-> 0, reviewCount |-> 0]
    /\ rv = [h \in Procs |-> NoReviewCall]
    /\ reqData = [r \in Requests |-> [title |-> "Website renewal", budgetMax |-> Null]]

Init ==
    /\ Quiescent
    /\ args = NoArgs
    /\ ret = NoRet

\* Time passes between any two steps.
Tick ==
    /\ now < MaxClock
    /\ now' = now + 1
    /\ UNCHANGED <<reqStatus, closedAt, proposals, pc, call, tableVars, matchVars, reviewVars,
                   reqData>>

\* A handler step: the handler goes on to the await `to` keeping its call `c`,
\* or it answers with the response `to` and frees its slot.
Goto(h, to, c) ==
    /\ pc' = [pc EXCEPT ![h] = IF to \in Responses THEN "idle" ELSE to]
    /\ call' = [call EXCEPT ![h] = IF to \in Responses THEN NoCall ELSE c]
    /\ UNCHANGED <<tableVars, matchVars, reviewVars, reqData>>

\* ----------------------------------------- POST /api/requests/[id]/publish
PublishCheck(session, r) ==
    IF session = NoSession THEN "r401"
    ELSE IF requestUser[r] # session THEN "r403"
    ELSE IF reqStatus[r] # "DRAFT" THEN "r400"
    ELSE "pub_write"

PublishBegin(h, session, r) ==
    /\ pc[h] = "idle"
    /\ Goto(h, PublishCheck(session, r),
            Call("publish", [requestId |-> r, companyId |-> "none"], "none"))
    /\ UNCHANGED <<reqStatus, closedAt, proposals, now>>

PublishWrite(h) ==
    /\ pc[h] = "pub_write"
    /\ reqStatus' = [reqStatus EXCEPT ![call[h].key.requestId] = "PUBLISHED"]
    /\ Goto(h, "r200", NoCall)
    /\ UNCHANGED <<closedAt, proposals, now>>

\* ------------------------------------ POST /api/requests/[id]/proposals
\* First two reads: the session's user with its company, then the request.
SubmitCheck(session, r) ==
    IF session = NoSession THEN "r401"
    ELSE IF companyUsers[session] = NoCompany THEN "r403"
    ELSE IF ~isVerified[companyUsers[session]] THEN "r403"
    ELSE IF reqStatus[r] # "PUBLISHED" THEN "r400"
    ELSE "sub_find"

\* The company the submission is for: the first company of the session's user.
SubmitKey(session, r) ==
    [requestId |-> r,
     companyId |-> IF session \in Users THEN companyUsers[session] ELSE NoCompany]

SubmitBegin(h, session, r, cost) ==
    /\ pc[h] = "idle"
    /\ Goto(h, SubmitCheck(session, r), Call("submit", SubmitKey(session, r), cost))
    /\ UNCHANGED <<reqStatus, closedAt, proposals, now>>

\* Third read: the pair's existing row; then the body is parsed.
ExistingCheck(existingProposal, cost) ==
    IF existingProposal.status # NoRow /\ existingProposal.status # "PENDING" THEN "r400"
    ELSE IF cost <= 0 THEN "r400"
    ELSE "sub_upsert"

SubmitFind(h) ==
    /\ pc[h] = "sub_find"
    /\ Goto(h, ExistingCheck(proposals[call[h].key], call[h].body), call[h])
    /\ UNCHANGED <<reqStatus, closedAt, proposals, now>>

\* UpsertedRow with an update branch that leaves the cost of the row.
UpsertedRow_UpdateKeepsCost(row, cost) ==
    [row EXCEPT !.status = "RESPONDED",
                !.estimatedCost = IF row.status = NoRow THEN cost ELSE @,
                !.respondedAt = now]

\* upsert: create and update write the same columns; selectedAt is not written.
UpsertedRow(row, cost) ==
    [row EXCEPT !.status = "RESPONDED", !.estimatedCost = cost, !.respondedAt = now]

SubmitUpsert(h) ==
    /\ pc[h] = "sub_upsert"
    /\ proposals' = [proposals EXCEPT ![call[h].key] = UpsertedRow(@, call[h].body)]
    /\ Goto(h, "r201", NoCall)
    /\ UNCHANGED <<reqStatus, closedAt, now>>

\* ------------------------------------------- PATCH /api/proposals/[id]
PatchCheck(session, k, body) ==
    IF session = NoSession THEN "r401"
    ELSE IF proposals[k].status = NoRow THEN "r404"
    ELSE IF requestUser[k.requestId] # session THEN "r403"
    ELSE IF body \notin RequestCompanyStatus THEN "r400"
    ELSE IF body = "RESPONDED" THEN "r400"
    ELSE "patch_write"

PatchBegin(h, session, k, body) ==
    /\ pc[h] = "idle"
    /\ Goto(h, PatchCheck(session, k, body), Call("patch", k, body))
    /\ UNCHANGED <<reqStatus, closedAt, proposals, now>>

PatchedRow(row, status) ==
    [row EXCEPT !.status = status,
                !.selectedAt = IF status = "SELECTED" THEN now ELSE Null]

PatchWrite(h) ==
    /\ pc[h] = "patch_write"
    /\ proposals' = [proposals EXCEPT ![call[h].key] = PatchedRow(@, call[h].body)]
    /\ Goto(h, "r200", NoCall)
    /\ UNCHANGED <<reqStatus, closedAt, now>>

\* ------------------------------------ POST /api/proposals/[id]/select
SelectCheck(session, k) ==
    IF session = NoSession THEN "r401"
    ELSE IF proposals[k].status = NoRow THEN "r404"
    ELSE IF requestUser[k.requestId] # session THEN "r403"
    ELSE IF proposals[k].status # "RESPONDED" THEN "r400"
    ELSE IF reqStatus[k.requestId] # "PUBLISHED" THEN "r400"
    ELSE "sel_tx"

SelectBegin(h, session, k) ==
    /\ pc[h] = "idle"
    /\ Goto(h, SelectCheck(session, k), Call("select", k, "none"))
    /\ UNCHANGED <<reqStatus, closedAt, proposals, now>>

\* SelectedRows without the updateMany that rejects the siblings.
SelectedRows_NoSiblingReject(k) ==
    [proposals EXCEPT ![k].status = "SELECTED", ![k].selectedAt = now]

\* Writes 1 and 2 of the transaction: update(id), then updateMany(siblings).
SelectedRows(k) ==
    [q \in Keys |->
        IF q = k
        THEN [proposals[q] EXCEPT !.status = "SELECTED", !.selectedAt = now]
        ELSE IF q.requestId = k.requestId /\ proposals[q].status = "RESPONDED"
        THEN [proposals[q] EXCEPT !.status = "REJECTED"]
        ELSE proposals[q]]

\* SelectTx without a transaction around it, failing before the third write:
\* the proposals are written and the request is left open.
SelectTx_NotAtomic(h) ==
    /\ pc[h] = "sel_tx"
    /\ proposals' = SelectedRows(call[h].key)
    /\ Goto(h, "r500", NoCall)
    /\ UNCHANGED <<reqStatus, closedAt, now>>

\* The transaction commits its three writes in one step.
SelectTx(h) ==
    /\ pc[h] = "sel_tx"
    /\ proposals' = SelectedRows(call[h].key)
    /\ reqStatus' = [reqStatus EXCEPT ![call[h].key.requestId] = "CLOSED"]
    /\ closedAt' = [closedAt EXCEPT ![call[h].key.requestId] = now]
    /\ Goto(h, "r200", NoCall)
    /\ UNCHANGED now

\* The transaction throws and rolls back; the catch block answers 500.
SelectTxFail(h) ==
    /\ pc[h] = "sel_tx"
    /\ Goto(h, "r500", NoCall)
    /\ UNCHANGED <<reqStatus, closedAt, proposals, now>>

\* ---------------------------------------------------------- behaviour
Next ==
    \/ Tick
    \/ \E h \in Procs, s \in Callers, r \in Requests : PublishBegin(h, s, r)
    \/ \E h \in Procs : PublishWrite(h)
    \/ \E h \in Procs, s \in Sessions, r \in Requests, c \in Costs : SubmitBegin(h, s, r, c)
    \/ \E h \in Procs : SubmitFind(h)
    \/ \E h \in Procs : SubmitUpsert(h)
    \/ \E h \in Procs, s \in Callers, k \in Keys, b \in PatchBodies : PatchBegin(h, s, k, b)
    \/ \E h \in Procs : PatchWrite(h)
    \/ \E h \in Procs, s \in Callers, k \in Keys : SelectBegin(h, s, k)
    \/ \E h \in Procs : SelectTx(h)
    \/ \E h \in Procs : SelectTxFail(h)

Spec == Init /\ [][Next]_vars

\* ------------------------------------------- the submission route alone
\* estimatedCost of the bodies when the selection route is left out: 0 fails
\* the schema, 1 and 2 pass it and differ, so that an update is seen to
\* replace the cost.
SubmitCosts == {0, 1, 2}

\* Publication, submission and the owner's status update, without selection.
SubmitNext ==
    \/ Tick
    \/ \E h \in Procs, s \in Callers, r \in Requests : PublishBegin(h, s, r)
    \/ \E h \in Procs : PublishWrite(h)
    \/ \E h \in Procs, s \in Sessions, r \in Requests, c \in SubmitCosts :
           SubmitBegin(h, s, r, c)
    \/ \E h \in Procs : SubmitFind(h)
    \/ \E h \in Procs : SubmitUpsert(h)
    \/ \E h \in Procs, s \in Callers, k \in Keys, b \in PatchBodies : PatchBegin(h, s, k, b)
    \/ \E h \in Procs : PatchWrite(h)

SubmitSpec == Init /\ [][SubmitNext]_vars

\* ------------------------------------- the upsert statement, opened up
\* prisma.requestCompany.upsert({where: requestId_companyId, create, update})
\* reads the pair's row and then inserts or updates; two calls for one pair
\* can both read before either writes.  The table carries the unique index
\* request_companies_requestId_companyId_key, which the database checks on
\* every INSERT.

\* The read: the statement that follows depends on whether a row was found.
UpsertSelect(h, k) ==
    /\ ups[h].at = "idle"
    /\ ups' = [ups EXCEPT ![h] =
                   [at |-> IF pairRows[k] = 0 THEN "insert" ELSE "update", key |-> k]]
    /\ UNCHANGED <<pairRows, routeVars, matchVars, reviewVars, reqData>>

\* UniqueIndexAdmits with the index dropped from the table.
UniqueIndexAdmits_NoIndex(k) == TRUE

\* The unique index admits a new row for pair k.
UniqueIndexAdmits(k) == pairRows[k] = 0

\* The INSERT: stores the row, or fails on the unique index (the handler's
\* catch block answers 500) and stores nothing.
UpsertInsert(h) ==
    /\ ups[h].at = "insert"
    /\ pairRows' = IF UniqueIndexAdmits(ups[h].key)
                   THEN [pairRows EXCEPT ![ups[h].key] = @ + 1]
                   ELSE pairRows
    /\ ups' = [ups EXCEPT ![h] = NoUpsert]
    /\ UNCHANGED <<routeVars, matchVars, reviewVars, reqData>>

\* The UPDATE: rewrites the row found, the number of rows stays.
UpsertUpdate(h) ==
    /\ ups[h].at = "update"
    /\ ups' = [ups EXCEPT ![h] = NoUpsert]
    /\ UNCHANGED <<pairRows, routeVars, matchVars, reviewVars, reqData>>

PairNext ==
    \/ \E h \in Procs, k \in Keys : UpsertSelect(h, k)
    \/ \E h \in Procs : UpsertInsert(h)
    \/ \E h \in Procs : UpsertUpdate(h)

PairSpec == Init /\ [][PairNext]_vars

\* ================================================== matching algorithm
\* The matching functions are pure: each is checked by a specification whose
\* initial states are the argument lists drawn from the sets below and whose
\* one action calls the function and stores what it returned.

\* ------------------------------------------------------------- bounds
\* Longest list of names passed to a score function.
MaxNames == 2

\* Longest list of companies passed to findMatchingCompanies.
MaxCompanies == 3

\* ---------------------------------------------------------- JavaScript
\* The elements of a list.
Range(list) == {list[i] : i \in 1..Len(list)}

\* Every list over S of length at most n.
Lists(S, n) == UNION {[1..m -> S] : m \in 0..n}

Min(a, b) == IF a <= b THEN a ELSE b

Max(a, b) == IF a >= b THEN a ELSE b

\* Math.round of the fraction n / d (n >= 0, d > 0): the nearest integer, a
\* half rounded up.
round(n, d) == (2 * n + d) \div (2 * d)

\* String.prototype.toLowerCase, on the names the model uses.
toLowerCase(s) ==
    CASE s = "React" -> "react"
      [] s = "Node" -> "node"
      [] s = "Node.js" -> "node.js"
      [] s = "Vue" -> "vue"
      [] s = "AI" -> "ai"
      [] s = "Web Development" -> "web development"
      [] OTHER -> s

\* String.prototype.includes: t occurs in s.
includes(s, t) ==
    \E i \in 1..(Len(s) - Len(t) + 1) : SubSeq(s, i, i + Len(t) - 1) = t

\* list.map((t) => t.toLowerCase())
lower(list) == [i \in 1..Len(list) |-> toLowerCase(list[i])]

\* new Set(list), spread back into a list: the distinct elements in the order
\* of their first occurrence.
RECURSIVE newSet(_)
newSet(list) ==
    IF Len(list) = 0 THEN <<>>
    ELSE LET front == newSet(SubSeq(list, 1, Len(list) - 1))
             last == list[Len(list)]
         IN  IF last \in Range(front) THEN front ELSE Append(front, last)

\* ------------------------------------------- calculateTechStackScore
\* calculateTechStackScore comparing the names as they are written.
calculateTechStackScore_CaseSensitive(companyTechStacks, requestedTechStacks) ==
    IF Len(requestedTechStacks) = 0 THEN [score |-> 40, matched |-> <<>>]
    ELSE IF Len(companyTechStacks) = 0 THEN [score |-> 0, matched |-> <<>>]
    ELSE LET companySet == newSet(companyTechStacks)
             requestSet == newSet(requestedTechStacks)
             intersection == SelectSeq(requestSet, LAMBDA tech : tech \in Range(companySet))
             union == newSet(companySet \o requestSet)
         IN  [score |-> round(Len(intersection) * 40, Len(union)),
              matched |-> intersection]

\* calculateTechStackScore testing the company's list before the request's.
calculateTechStackScore_CompanyFirst(companyTechStacks, requestedTechStacks) ==
    IF Len(companyTechStacks) = 0 THEN [score |-> 0, matched |-> <<>>]
    ELSE IF Len(requestedTechStacks) = 0 THEN [score |-> 40, matched |-> <<>>]
    ELSE LET companySet == newSet(lower(companyTechStacks))
             requestSet == newSet(lower(requestedTechStacks))
             intersection == SelectSeq(requestSet, LAMBDA tech : tech \in Range(companySet))
             union == newSet(companySet \o requestSet)
         IN  [score |-> round(Len(intersection) * 40, Len(union)),
              matched |-> intersection]

\* A request without requirements reaches the function as the empty list
\* (calculateMatchScore passes `requirements?.techStacks || []`).
calculateTechStackScore(companyTechStacks, requestedTechStacks) ==
    IF Len(requestedTechStacks) = 0 THEN [score |-> 40, matched |-> <<>>]
    ELSE IF Len(companyTechStacks) = 0 THEN [score |-> 0, matched |-> <<>>]
    ELSE LET companySet == newSet(lower(companyTechStacks))
             requestSet == newSet(lower(requestedTechStacks))
             intersection == SelectSeq(requestSet, LAMBDA tech : tech \in Range(companySet))
             union == newSet(companySet \o requestSet)
         IN  [score |-> round(Len(intersection) * 40, Len(union)),
              matched |-> intersection]

\* ------------------------------------------- calculateSpecialtyScore
ProjectType == {"WEB_DEVELOPMENT", "MOBILE_APP", "AI_ML", "SYSTEM_INTEGRATION",
                "CONSULTING", "MAINTENANCE", "OTHER"}

\* projectTypeMap[projectType] || []
projectTypeMap(projectType) ==
    CASE projectType = "WEB_DEVELOPMENT" ->
             <<"web development", "frontend", "backend", "fullstack">>
      [] projectType = "MOBILE_APP" ->
             <<"mobile development", "ios", "android", "mobile app">>
      [] projectType = "AI_ML" ->
             <<"ai", "machine learning", "deep learning", "data science">>
      [] projectType = "SYSTEM_INTEGRATION" ->
             <<"system integration", "api integration", "enterprise">>
      [] projectType = "CONSULTING" -> <<"consulting", "strategy", "advisory">>
      [] projectType = "MAINTENANCE" -> <<"maintenance", "support", "bug fixing">>
      [] OTHER -> <<>>

\* The keywords of the project type that some company specialty contains.
\* `some` stops at the first of them, which is the one pushed to matched.
projectMatches(companySet, projectType) ==
    SelectSeq(projectTypeMap(projectType),
              LAMBDA keyword :
                  \E spec \in Range(companySet) : includes(spec, toLowerCase(keyword)))

\* The requested specialties, lower-cased and distinct, that contain or are
\* contained in some company specialty.
specialtyIntersection(companySet, requestedSpecialties) ==
    SelectSeq(newSet(lower(requestedSpecialties)),
              LAMBDA spec :
                  \E cs \in Range(companySet) : includes(cs, spec) \/ includes(spec, cs))

calculateSpecialtyScore(companySpecialties, projectType, requestedSpecialties) ==
    IF Len(companySpecialties) = 0 THEN [score |-> 0, matched |-> <<>>]
    ELSE LET companySet == newSet(lower(companySpecialties))
             keywords == projectMatches(companySet, projectType)
             hasProjectMatch == Len(keywords) > 0
             primary == IF hasProjectMatch THEN 15 ELSE 0
             intersection == specialtyIntersection(companySet, requestedSpecialties)
             secondary ==
                 IF Len(requestedSpecialties) > 0
                 THEN round(Len(intersection) * 15, Len(requestedSpecialties))
                 ELSE 10
         IN  [score |-> Min(primary + secondary, 30),
              matched |-> (IF hasProjectMatch THEN <<Head(keywords)>> ELSE <<>>)
                          \o (IF Len(requestedSpecialties) > 0 THEN intersection ELSE <<>>)]

\* ---------------------------------------------- calculateBudgetScore
\* The budgets are whole yen; Null is a budget that is not given (0, null and
\* undefined take the same branch).  With both budgets positive,
\* rangeRatio = budgetRange / budgetMid < p / q  iff  2 * q * budgetRange <
\* p * (min + max), and budgetMid < m iff min + max < 2 * m.
\* calculateBudgetScore without the budget tier adjustments.
calculateBudgetScore_NoTier(requestBudgetMin, requestBudgetMax) ==
    IF requestBudgetMin = Null \/ requestBudgetMax = Null
    THEN [score |-> 15, compatibility |-> "acceptable"]
    ELSE LET twiceMid == requestBudgetMin + requestBudgetMax
             budgetRange == requestBudgetMax - requestBudgetMin
         IN  IF 10 * budgetRange < twiceMid
                 THEN [score |-> 12, compatibility |-> "good"]
             ELSE IF 4 * budgetRange < twiceMid
                 THEN [score |-> 18, compatibility |-> "perfect"]
             ELSE IF 2 * budgetRange < twiceMid
                 THEN [score |-> 15, compatibility |-> "good"]
             ELSE [score |-> 10, compatibility |-> "acceptable"]

calculateBudgetScore(requestBudgetMin, requestBudgetMax) ==
    IF requestBudgetMin = Null \/ requestBudgetMax = Null
    THEN [score |-> 15, compatibility |-> "acceptable"]
    ELSE LET twiceMid == requestBudgetMin + requestBudgetMax
             budgetRange == requestBudgetMax - requestBudgetMin
             band == IF 10 * budgetRange < twiceMid
                         THEN [score |-> 12, compatibility |-> "good"]
                     ELSE IF 4 * budgetRange < twiceMid
                         THEN [score |-> 18, compatibility |-> "perfect"]
                     ELSE IF 2 * budgetRange < twiceMid
                         THEN [score |-> 15, compatibility |-> "good"]
                     ELSE [score |-> 10, compatibility |-> "acceptable"]
         IN  [score |-> IF twiceMid < 2 * 100000 THEN Max(band.score - 2, 8)
                        ELSE IF twiceMid > 2 * 10000000 THEN Min(band.score + 2, 20)
                        ELSE band.score,
              compatibility |-> band.compatibility]

\* ---------------------------------------------- calculateRatingScore
\* averageRating is in tenths of a star (45 is 4.5 stars).  In hundredths of
\* a point: (averageRating / 5) * 8 is 16 per tenth of a star, and the bonus
\* for the review count is 200, 150, 100, 50 or 0.
\* calculateRatingScore with Math.floor in the place of Math.round.
calculateRatingScore_Floor(averageRating, reviewCount) ==
    IF reviewCount = 0 THEN 5
    ELSE LET bonus == IF reviewCount >= 50 THEN 200
                      ELSE IF reviewCount >= 20 THEN 150
                      ELSE IF reviewCount >= 10 THEN 100
                      ELSE IF reviewCount >= 5 THEN 50
                      ELSE 0
         IN  Min((averageRating * 16 + bonus) \div 100, 10)

calculateRatingScore(averageRating, reviewCount) ==
    IF reviewCount = 0 THEN 5
    ELSE LET bonus == IF reviewCount >= 50 THEN 200
                      ELSE IF reviewCount >= 20 THEN 150
                      ELSE IF reviewCount >= 10 THEN 100
                      ELSE IF reviewCount >= 5 THEN 50
                      ELSE 0
         IN  Min(round(averageRating * 16 + bonus, 100), 10)

\* ------------------------------------------------------ MatchingConfig
\* A field of the config that the caller left out.
Omitted == -1

\* The weights are in hundredths (40 is 0.4).
DEFAULT_CONFIG ==
    [techStackWeight |-> 40, specialtyWeight |-> 30, budgetWeight |-> 20,
     ratingWeight |-> 10, minScore |-> 30, maxResults |-> 20]

\* The fields of a config that are weights.
WeightFields == {"techStackWeight", "specialtyWeight", "budgetWeight", "ratingWeight"}

\* { ...DEFAULT_CONFIG, ...config }
mergedConfig(config) ==
    [f \in DOMAIN DEFAULT_CONFIG |-> IF config[f] = Omitted THEN DEFAULT_CONFIG[f] ELSE config[f]]

\* A config that leaves every weight out.
Unweighted(minScore, maxResults) ==
    [techStackWeight |-> Omitted, specialtyWeight |-> Omitted, budgetWeight |-> Omitted,
     ratingWeight |-> Omitted, minScore |-> minScore, maxResults |-> maxResults]

\* ----------------------------------------------- calculateMatchScore
\* A company is its row with the names of its tech stacks and specialties; a
\* request is its row with the lists of its requirements (absent
\* requirements are empty lists).

\* calculateMatchScore with a total that leaves the rating out.
calculateMatchScore_NoRating(company, request, config) ==
    LET techStackResult ==
            calculateTechStackScore(company.techStacks, request.requirements.techStacks)
        specialtyResult ==
            calculateSpecialtyScore(company.specialties, request.projectType,
                                    request.requirements.specialties)
        budgetResult == calculateBudgetScore(request.budgetMin, request.budgetMax)
        ratingScore == calculateRatingScore(company.averageRating, company.reviewCount)
    IN  [total |-> techStackResult.score + specialtyResult.score + budgetResult.score,
         techStackScore |-> techStackResult.score,
         specialtyScore |-> specialtyResult.score,
         budgetScore |-> budgetResult.score,
         ratingScore |-> ratingScore,
         matchedTechStacks |-> techStackResult.matched,
         matchedSpecialties |-> specialtyResult.matched,
         budgetCompatibility |-> budgetResult.compatibility]

\* calculateMatchScore scaling each sub-score by its weight over the default.
calculateMatchScore_Weighted(company, request, config) ==
    LET cfg == mergedConfig(config)
        techStackResult ==
            calculateTechStackScore(company.techStacks, request.requirements.techStacks)
        specialtyResult ==
            calculateSpecialtyScore(company.specialties, request.projectType,
                                    request.requirements.specialties)
        budgetResult == calculateBudgetScore(request.budgetMin, request.budgetMax)
        ratingScore == calculateRatingScore(company.averageRating, company.reviewCount)
    IN  [total |-> round(techStackResult.score * cfg.techStackWeight * 6
                         + specialtyResult.score * cfg.specialtyWeight * 8
                         + budgetResult.score * cfg.budgetWeight * 12
                         + ratingScore * cfg.ratingWeight * 24, 240),
         techStackScore |-> techStackResult.score,
         specialtyScore |-> specialtyResult.score,
         budgetScore |-> budgetResult.score,
         ratingScore |-> ratingScore,
         matchedTechStacks |-> techStackResult.matched,
         matchedSpecialties |-> specialtyResult.matched,
         budgetCompatibility |-> budgetResult.compatibility]

\* The sub-scores are integers, so Math.round leaves their sum as it is; the
\* config is merged with the defaults and not read.
calculateMatchScore(company, request, config) ==
    LET techStackResult ==
            calculateTechStackScore(company.techStacks, request.requirements.techStacks)
        specialtyResult ==
            calculateSpecialtyScore(company.specialties, request.projectType,
                                    request.requirements.specialties)
        budgetResult == calculateBudgetScore(request.budgetMin, request.budgetMax)
        ratingScore == calculateRatingScore(company.averageRating, company.reviewCount)
    IN  [total |-> techStackResult.score + specialtyResult.score
                   + budgetResult.score + ratingScore,
         techStackScore |-> techStackResult.score,
         specialtyScore |-> specialtyResult.score,
         budgetScore |-> budgetResult.score,
         ratingScore |-> ratingScore,
         matchedTechStacks |-> techStackResult.matched,
         matchedSpecialties |-> specialtyResult.matched,
         budgetCompatibility |-> budgetResult.compatibility]

\* --------------------------------------------- findMatchingCompanies
\* The filter callback; a minRating of 0 is a filter that is not set.
passesFilters(company, filters) ==
    IF filters.verifiedOnly /\ ~company.isVerified THEN FALSE
    ELSE IF filters.minRating # 0 /\ company.averageRating < filters.minRating THEN FALSE
    ELSE IF ~company.acceptsNewProjects THEN FALSE
    ELSE TRUE

\* The filters are applied only when the argument is given.
filteredCompanies(companies, filters) ==
    IF filters.given
    THEN SelectSeq(companies, LAMBDA company : passesFilters(company, filters))
    ELSE companies

\* The matches with a total of at least minScore.
qualifiedMatches(companies, request, filters, config) ==
    LET filtered == filteredCompanies(companies, filters)
        matchedCompanies ==
            [i \in 1..Len(filtered) |->
                [company |-> filtered[i],
                 matchScore |-> calculateMatchScore(filtered[i], request, config)]]
    IN  SelectSeq(matchedCompanies,
                  LAMBDA mc : mc.matchScore.total >= mergedConfig(config).minScore)

\* insertByTotal placing the match before the matches of equal total.
insertByTotal_BeforeTies(sorted, mc) ==
    LET n == Cardinality({i \in 1..Len(sorted) :
                             sorted[i].matchScore.total > mc.matchScore.total})
    IN  SubSeq(sorted, 1, n) \o <<mc>> \o SubSeq(sorted, n + 1, Len(sorted))

\* Array.prototype.sort with (a, b) => b.total - a.total is a stable sort:
\* each match goes after the matches whose total is at least its own.
insertByTotal(sorted, mc) ==
    LET n == Cardinality({i \in 1..Len(sorted) :
                             sorted[i].matchScore.total >= mc.matchScore.total})
    IN  SubSeq(sorted, 1, n) \o <<mc>> \o SubSeq(sorted, n + 1, Len(sorted))

RECURSIVE sortByTotal(_)
sortByTotal(list) ==
    IF Len(list) = 0 THEN <<>>
    ELSE insertByTotal(sortByTotal(SubSeq(list, 1, Len(list) - 1)), list[Len(list)])

\* list.slice(0, end), end >= 0
slice(list, end) == SubSeq(list, 1, Min(Len(list), end))

\* findMatchingCompanies limiting the results before it sorts them.
findMatchingCompanies_SliceBeforeSort(companies, request, filters, config) ==
    sortByTotal(slice(qualifiedMatches(companies, request, filters, config),
                      mergedConfig(config).maxResults))

findMatchingCompanies(companies, request, filters, config) ==
    slice(sortByTotal(qualifiedMatches(companies, request, filters, config)),
          mergedConfig(config).maxResults)

\* ---------------------------------------------------------- arguments
TechNames == {"React", "react", "Node", "vue"}

SpecialtyNames == {"AI", "ai", "Web Development", "web"}

\* Tenths of a star.
Ratings == {0, 25, 45, 50}

ReviewCounts == {0, 5, 30, 50}

\* Yen; Null is a budget that is not given.
Budgets == {Null, 50000, 55000, 1000000, 1300000, 3000000, 12000000, 18000000}

Company(id, isVer, accepts, rating, reviews, techStacks, specialties) ==
    [id |-> id, isVerified |-> isVer, acceptsNewProjects |-> accepts,
     averageRating |-> rating, reviewCount |-> reviews,
     techStacks |-> techStacks, specialties |-> specialties]

Request(projectType, budgetMin, budgetMax, techStacks, specialties) ==
    [projectType |-> projectType, budgetMin |-> budgetMin, budgetMax |-> budgetMax,
     requirements |-> [techStacks |-> techStacks, specialties |-> specialties]]

\* A web project asking for react and postgresql on 1,000,000 to 3,000,000.
WebRequest == Request("WEB_DEVELOPMENT", 1000000, 3000000, <<"react", "postgresql">>, <<>>)

\* Companies and requests given to calculateMatchScore.
ScoredCompanies ==
    {Company("x", TRUE, TRUE, rating, reviews, techStacks, specialties) :
        rating \in Ratings, reviews \in ReviewCounts,
        techStacks \in {<<>>, <<"React", "Node.js">>, <<"react", "postgresql">>},
        specialties \in {<<>>, <<"Web Development">>, <<"AI", "web">>}}

ScoredRequests ==
    {Request(projectType, budgetMin, budgetMax, techStacks, specialties) :
        projectType \in {"WEB_DEVELOPMENT", "OTHER"},
        budgetMin \in Budgets, budgetMax \in Budgets,
        techStacks \in {<<>>, <<"react", "postgresql">>},
        specialties \in {<<>>, <<"web", "ai">>}}

\* Companies given to findMatchingCompanies.  Against WebRequest: a and b
\* total 57 each, b is not verified; c totals 85 and accepts no new project;
\* d totals 15; e totals 40.
CompanyPool ==
    {Company("a", TRUE, TRUE, 45, 30, <<"React", "Node.js">>, <<"Web Development">>),
     Company("b", FALSE, TRUE, 45, 30, <<"React", "Node.js">>, <<"Web Development">>),
     Company("c", TRUE, FALSE, 50, 50, <<"react", "postgresql">>, <<"Web Development">>),
     Company("d", TRUE, TRUE, 0, 0, <<>>, <<>>),
     Company("e", TRUE, TRUE, 30, 5, <<"Vue">>, <<"Web Development">>)}

\* Lists of distinct companies.
CompanyLists ==
    {list \in Lists(CompanyPool, MaxCompanies) :
        \A i, j \in 1..Len(list) : i # j => list[i] # list[j]}

\* given = FALSE is a call without the filters argument.
Filters ==
    {[given |-> FALSE, verifiedOnly |-> FALSE, minRating |-> 0],
     [given |-> TRUE, verifiedOnly |-> FALSE, minRating |-> 0],
     [given |-> TRUE, verifiedOnly |-> TRUE, minRating |-> 0],
     [given |-> TRUE, verifiedOnly |-> FALSE, minRating |-> 40]}

Configs == {Unweighted(minScore, maxResults) :
               minScore \in {Omitted, 50}, maxResults \in {Omitted, 1, 2}}

\* -------------------------------------------------- the four callers
\* The function named fn is called with the arguments and has not returned.
Called(fn) == args.fn = fn /\ ret.fn = "none"

Returned(fn, value) ==
    /\ ret' = [fn |-> fn, value |-> value]
    /\ UNCHANGED <<args, routeVars, tableVars, reviewVars, reqData>>

TechStackInit ==
    /\ Quiescent
    /\ args \in {[fn |-> "calculateTechStackScore",
                  companyTechStacks |-> c, requestedTechStacks |-> q] :
                     c \in Lists(TechNames, MaxNames), q \in Lists(TechNames, MaxNames)}
    /\ ret = NoRet

CallTechStackScore ==
    /\ Called("calculateTechStackScore")
    /\ Returned("calculateTechStackScore",
                calculateTechStackScore(args.companyTechStacks, args.requestedTechStacks))

TechStackSpec == TechStackInit /\ [][CallTechStackScore]_vars

SpecialtyInit ==
    /\ Quiescent
    /\ args \in {[fn |-> "calculateSpecialtyScore", companySpecialties |-> c,
                  projectType |-> t, requestedSpecialties |-> q] :
                     c \in Lists(SpecialtyNames, MaxNames), t \in ProjectType,
                     q \in Lists(SpecialtyNames, MaxNames)}
    /\ ret = NoRet

CallSpecialtyScore ==
    /\ Called("calculateSpecialtyScore")
    /\ Returned("calculateSpecialtyScore",
                calculateSpecialtyScore(args.companySpecialties, args.projectType,
                                        args.requestedSpecialties))

SpecialtySpec == SpecialtyInit /\ [][CallSpecialtyScore]_vars

MatchScoreInit ==
    /\ Quiescent
    /\ args \in {[fn |-> "calculateMatchScore", company |-> c, request |-> r] :
                     c \in ScoredCompanies, r \in ScoredRequests}
    /\ ret = NoRet

CallMatchScore ==
    /\ Called("calculateMatchScore")
    /\ Returned("calculateMatchScore",
                calculateMatchScore(args.company, args.request,
                                    Unweighted(Omitted, Omitted)))

MatchScoreSpec == MatchScoreInit /\ [][CallMatchScore]_vars

FindInit ==
    /\ Quiescent
    /\ args \in {[fn |-> "findMatchingCompanies", companies |-> cs,
                  request |-> WebRequest, filters |-> f, config |-> cfg] :
                     cs \in CompanyLists, f \in Filters, cfg \in Configs}
    /\ ret = NoRet

CallFindMatchingCompanies ==
    /\ Called("findMatchingCompanies")
    /\ Returned("findMatchingCompanies",
                findMatchingCompanies(args.companies, args.request,
                                      args.filters, args.config))

FindSpec == FindInit /\ [][CallFindMatchingCompanies]_vars

\* Budgets given to calculateBudgetScore alone, in yen: pairs of them fall in
\* every band of the range ratio and on its limits 0.2 (900,000 and
\* 1,100,000), 0.5 (600,000 and 1,000,000) and 1.0 (1,000,000 and
\* 3,000,000), and have midpoints below, at and above 100,000 and
\* 10,000,000.
BudgetBounds ==
    {Null, 10000, 50000, 55000, 90000, 110000, 600000, 900000, 1000000, 1100000,
     1300000, 3000000, 9000000, 11000000, 12000000, 18000000}

BudgetInit ==
    /\ Quiescent
    /\ args \in {[fn |-> "calculateBudgetScore",
                  requestBudgetMin |-> lo, requestBudgetMax |-> hi] :
                     lo \in BudgetBounds, hi \in BudgetBounds}
    /\ ret = NoRet

CallBudgetScore ==
    /\ Called("calculateBudgetScore")
    /\ Returned("calculateBudgetScore",
                calculateBudgetScore(args.requestBudgetMin, args.requestBudgetMax))

BudgetSpec == BudgetInit /\ [][CallBudgetScore]_vars

\* Every average from 0 to 5 stars in tenths of a star.
AverageRatings == 0..50

\* Review counts below, at and above each step of the bonus.
AllReviewCounts == {0, 1, 4, 5, 9, 10, 19, 20, 49, 50, 51}

RatingInit ==
    /\ Quiescent
    /\ args \in {[fn |-> "calculateRatingScore", averageRating |-> a, reviewCount |-> n] :
                     a \in AverageRatings, n \in AllReviewCounts}
    /\ ret = NoRet

CallRatingScore ==
    /\ Called("calculateRatingScore")
    /\ Returned("calculateRatingScore",
                calculateRatingScore(args.averageRating, args.reviewCount))

RatingSpec == RatingInit /\ [][CallRatingScore]_vars

\* ------------------------------------------- the weights of a config
\* Weights a caller can pass, in hundredths: none, the defaults written
\* out, all on the rating, all zero.
WeightChoices ==
    {[techStackWeight |-> Omitted, specialtyWeight |-> Omitted,
      budgetWeight |-> Omitted, ratingWeight |-> Omitted],
     [techStackWeight |-> 40, specialtyWeight |-> 30, budgetWeight |-> 20, ratingWeight |-> 10],
     [techStackWeight |-> 0, specialtyWeight |-> 0, budgetWeight |-> 0, ratingWeight |-> 100],
     [techStackWeight |-> 0, specialtyWeight |-> 0, budgetWeight |-> 0, ratingWeight |-> 0]}

WeightedConfig(w, minScore, maxResults) ==
    [techStackWeight |-> w.techStackWeight, specialtyWeight |-> w.specialtyWeight,
     budgetWeight |-> w.budgetWeight, ratingWeight |-> w.ratingWeight,
     minScore |-> minScore, maxResults |-> maxResults]

\* Pairs of configs that differ in their weights at most.
ConfigPairs ==
    {[config |-> WeightedConfig(w, minScore, maxResults),
      other |-> WeightedConfig(v, minScore, maxResults)] :
        w \in WeightChoices, v \in WeightChoices,
        minScore \in {Omitted, 50}, maxResults \in {Omitted, 1}}

\* Either function is called twice on the same arguments but for the config.
WeightInit ==
    /\ Quiescent
    /\ \/ args \in {[fn |-> "calculateMatchScore twice", company |-> c,
                      request |-> WebRequest, config |-> p.config, other |-> p.other] :
                         c \in CompanyPool, p \in ConfigPairs}
       \/ args \in {[fn |-> "findMatchingCompanies twice", companies |-> cs,
                      request |-> WebRequest, filters |-> f,
                      config |-> p.config, other |-> p.other] :
                         cs \in CompanyLists, f \in Filters, p \in ConfigPairs}
    /\ ret = NoRet

CallMatchScoreTwice ==
    /\ Called("calculateMatchScore twice")
    /\ Returned("calculateMatchScore twice",
                [first |-> calculateMatchScore(args.company, args.request, args.config),
                 second |-> calculateMatchScore(args.company, args.request, args.other)])

CallFindMatchingCompaniesTwice ==
    /\ Called("findMatchingCompanies twice")
    /\ Returned("findMatchingCompanies twice",
                [first |-> findMatchingCompanies(args.companies, args.request,
                                                 args.filters, args.config),
                 second |-> findMatchingCompanies(args.companies, args.request,
                                                  args.filters, args.other)])

WeightNext == CallMatchScoreTwice \/ CallFindMatchingCompaniesTwice

WeightSpec == WeightInit /\ [][WeightNext]_vars

\* ------------------------------------- proposal comparison page
\* Longest list of proposals the page receives.
MaxProposals == 2

\* p.matchScore?.total of a proposal that carries no match score.
NoScore == -1

\* The proposals the page can receive: status, estimatedCost (Null or a
\* positive cost) and match score total.
ComparedProposals ==
    [status : {"PENDING", "RESPONDED"}, estimatedCost : {Null, 1, 3},
     total : {NoScore, 40, 57}]

RECURSIVE sum(_)
\* list.reduce((a, b) => a + b, 0)
sum(list) == IF Len(list) = 0 THEN 0 ELSE sum(SubSeq(list, 1, Len(list) - 1)) + list[Len(list)]

\* Math.min(...list) and Math.max(...list) of a non-empty list.
least(list) == CHOOSE x \in Range(list) : \A y \in Range(list) : x <= y

greatest(list) == CHOOSE x \in Range(list) : \A y \in Range(list) : x >= y

\* list.length > 0 ? sum / list.length : 0, as the fraction num / den.
average(list) ==
    IF Len(list) > 0 THEN [num |-> sum(list), den |-> Len(list)] ELSE [num |-> 0, den |-> 1]

\* The page's proposals: those whose status is not PENDING.
shownProposals(list) == SelectSeq(list, LAMBDA p : p.status # "PENDING")

\* comparisonMetrics counting a proposal without a cost as a cost of zero.
comparisonMetrics_NullAsZero(list) ==
    LET proposals_ == shownProposals(list)
        costs == [i \in 1..Len(proposals_) |-> proposals_[i].estimatedCost]
        scores == SelectSeq([i \in 1..Len(proposals_) |-> proposals_[i].total],
                            LAMBDA t : t # NoScore)
    IN  [rendered |-> Len(proposals_) > 0,
         avgCost |-> average(costs),
         minCost |-> IF Len(costs) > 0 THEN least(costs) ELSE 0,
         maxCost |-> IF Len(costs) > 0 THEN greatest(costs) ELSE 0,
         avgScore |-> average(scores)]

\* The metrics of the page; without a proposal to show the page returns
\* before it computes them (rendered is FALSE, the metrics are those of
\* empty lists).
comparisonMetrics(list) ==
    LET proposals_ == shownProposals(list)
        costs == SelectSeq([i \in 1..Len(proposals_) |-> proposals_[i].estimatedCost],
                           LAMBDA c : c # Null)
        scores == SelectSeq([i \in 1..Len(proposals_) |-> proposals_[i].total],
                            LAMBDA t : t # NoScore)
    IN  [rendered |-> Len(proposals_) > 0,
         avgCost |-> average(costs),
         minCost |-> IF Len(costs) > 0 THEN least(costs) ELSE 0,
         maxCost |-> IF Len(costs) > 0 THEN greatest(costs) ELSE 0,
         avgScore |-> average(scores)]

CompareInit ==
    /\ Quiescent
    /\ args \in {[fn |-> "comparisonMetrics", proposals |-> list] :
                     list \in Lists(ComparedProposals, MaxProposals)}
    /\ ret = NoRet

CallComparisonMetrics ==
    /\ Called("comparisonMetrics")
    /\ Returned("comparisonMetrics", comparisonMetrics(args.proposals))

CompareSpec == CompareInit /\ [][CallComparisonMetrics]_vars

\* ------------------------------------------- PATCH /api/requests/[id]
\* Bodies of an update: each field is left out or given.
UpdateBodies ==
    [title : Titles \cup {"omitted"}, budgetMax : {Omitted, 1000000, 3000000}]

\* updateData applied to the row: the fields the body gives.
updated(row, updateData) ==
    [title |-> IF updateData.title = "omitted" THEN row.title ELSE updateData.title,
     budgetMax |-> IF updateData.budgetMax = Omitted THEN row.budgetMax
                   ELSE updateData.budgetMax]

RequestUpdateCheck(session, r) ==
    IF session = NoSession THEN "r401"
    ELSE IF requestUser[r] # session THEN "r403"
    ELSE IF reqStatus[r] # "DRAFT" THEN "r400"
    ELSE "upd_write"

\* The session, the request's findUnique and the checks on what it found.
RequestUpdateBegin(h, session, r, body) ==
    /\ pc[h] = "idle"
    /\ LET to == RequestUpdateCheck(session, r)
       IN  /\ pc' = [pc EXCEPT ![h] = IF to \in Responses THEN "idle" ELSE to]
           /\ call' = [call EXCEPT ![h] =
                  IF to \in Responses THEN NoCall
                  ELSE Call("update", [requestId |-> r, companyId |-> "none"], body)]
    /\ UNCHANGED <<reqStatus, closedAt, proposals, now, tableVars, matchVars, reviewVars,
                   reqData>>

\* prisma.request.update({ where: { id }, data: updateData })
RequestUpdateWrite(h) ==
    /\ pc[h] = "upd_write"
    /\ reqData' = [reqData EXCEPT ![call[h].key.requestId] = updated(@, call[h].body)]
    /\ pc' = [pc EXCEPT ![h] = "idle"]
    /\ call' = [call EXCEPT ![h] = NoCall]
    /\ UNCHANGED <<reqStatus, closedAt, proposals, now, tableVars, matchVars, reviewVars>>

\* The owner's update and publication of a request.
EditNext ==
    \/ \E h \in Procs, s \in Callers, r \in Requests : PublishBegin(h, s, r)
    \/ \E h \in Procs : PublishWrite(h)
    \/ \E h \in Procs, s \in Callers, r \in Requests, b \in UpdateBodies :
           RequestUpdateBegin(h, s, r, b)
    \/ \E h \in Procs : RequestUpdateWrite(h)

EditSpec == Init /\ [][EditNext]_vars

\* ------------------------------------------------------ review routes
\* Reviews the model lets the table hold, deleted ones included.
MaxReviews == 2

\* The one company that is reviewed.
ReviewedCompany == "c1"

\* users.role: dave is the administrator.
role == [u \in Users |-> IF u = "dave" THEN "SYSTEM_ADMIN" ELSE "USER"]

\* Ratings a body can carry: the least and the greatest the schema lets pass.
ReviewRatings == {1, 5}

\* The quotient 0 / 0.
NaN == -2

\* A review id is the row's position in the table; a deleted row keeps its
\* position, as an id is never given twice.
ReviewIds == 1..MaxReviews

\* What a deleted row leaves at its position.
DeletedReview == [userId |-> "none", companyId |-> "none", rating |-> 0,
                  isPublished |-> FALSE, deleted |-> TRUE]

ReviewResponses == {"r200", "r201", "r400", "r401", "r403", "r404", "r409", "r500"}

\* A call and what it goes on to use: the session's user of a create, the
\* rating of a create or an owner update, the isPublished of a moderation as
\* the JSON body spells it.
ReviewCall(op, id, session, rating, isPublished) ==
    [pc |-> "idle", op |-> op, id |-> id, session |-> session, rating |-> rating,
     isPublished |-> isPublished, total |-> 0, count |-> 0]

\* isPublished of a moderation body; "omitted" is a body with isVerified only.
ModerationBodies == {"true", "false", "omitted"}

\* The handler goes on to the await `to` with the call `c`, or answers with
\* the response `to` and frees its slot.
ReviewGoto(h, to, c) ==
    /\ rv' = [rv EXCEPT ![h] = IF to \in ReviewResponses THEN NoReviewCall
                               ELSE [c EXCEPT !.pc = to]]
    /\ UNCHANGED <<routeVars, tableVars, matchVars, reqData>>

\* The rows a findFirst / findUnique finds.
reviewExists(id) == id <= Len(reviewRows) /\ ~reviewRows[id].deleted

reviewsOf(rows, userId, companyId) ==
    {i \in 1..Len(rows) : /\ ~rows[i].deleted
                          /\ rows[i].userId = userId
                          /\ rows[i].companyId = companyId}

\* Calls that are inside their transaction.
inTransaction(h) == rv[h].pc = "commit"

\* The table as the transaction of the call `c` sees it and as it leaves it:
\* the committed rows with the call's own write.
written(rows, c) ==
    CASE c.op = "create" ->
             Append(rows, [userId |-> c.session, companyId |-> ReviewedCompany,
                           rating |-> c.rating, isPublished |-> TRUE, deleted |-> FALSE])
      [] c.op = "update" ->
             IF c.rating = Omitted THEN rows ELSE [rows EXCEPT ![c.id].rating = c.rating]
      [] c.op = "moderate" ->
             IF c.isPublished = "omitted" THEN rows
             ELSE [rows EXCEPT ![c.id].isPublished = (c.isPublished = "true")]
      [] c.op = "delete" -> [rows EXCEPT ![c.id] = DeletedReview]

\* findMany({ where: { companyId, isPublished: true } })
publishedReviews(rows, companyId) ==
    SelectSeq(rows, LAMBDA r : ~r.deleted /\ r.companyId = companyId /\ r.isPublished)

RECURSIVE totalRating(_)
totalRating(list) ==
    IF list = <<>> THEN 0 ELSE list[1].rating + totalRating(Tail(list))

\* Math.round(averageRating * 10) / 10, in tenths of a star.
roundedAverage(total, count) == round(10 * total, count)

\* Whether the transaction of the call reads the reviews and writes the stats.
recalculates(c) ==
    CASE c.op = "update" -> c.rating # Omitted
      [] c.op = "moderate" -> c.isPublished # "omitted"
      [] OTHER -> TRUE

\* What company.update writes.  The create's own row is published, so its
\* division is by one at least; the owner update divides unguarded.
newStats(c) ==
    CASE ~recalculates(c) -> stats
      [] c.op = "update" ->
             [stats EXCEPT !.averageRating =
                 IF c.count > 0 THEN roundedAverage(c.total, c.count) ELSE NaN]
      [] c.op = "create" ->
             [averageRating |-> roundedAverage(c.total, c.count), reviewCount |-> c.count]
      [] OTHER ->
             [averageRating |-> IF c.count > 0 THEN roundedAverage(c.total, c.count) ELSE 0,
              reviewCount |-> c.count]

\* POST /api/reviews up to the transaction: session, own company, existing
\* review.  The body's content passes the schema and the word filter.
CreateReviewCheck(session) ==
    IF session = NoSession THEN "r401"
    ELSE IF companyUsers[session] = ReviewedCompany THEN "r403"
    ELSE IF reviewsOf(reviewRows, session, ReviewedCompany) # {} THEN "r409"
    ELSE "tx"

\* Rows that are stored or about to be: the cap on the table's size.
reviewsAllotted ==
    Len(reviewRows) + Cardinality({h \in Procs : rv[h].op = "create"})

CreateReviewBegin(h, session, rating) ==
    /\ rv[h].pc = "idle"
    /\ reviewsAllotted < MaxReviews
    /\ ReviewGoto(h, CreateReviewCheck(session), ReviewCall("create", 0, session, rating, "none"))
    /\ UNCHANGED <<reviewRows, stats>>

\* The table as the transaction of the call `c` finds it: what its findMany
\* reads after its own write.
withSeen(c) ==
    LET seen == publishedReviews(written(reviewRows, c), ReviewedCompany)
    IN  IF recalculates(c)
        THEN [c EXCEPT !.total = totalRating(seen), !.count = Len(seen)]
        ELSE c

\* An update or a delete of a row waits while another transaction holds it.
rowIsFree(h, id) == \A g \in Procs \ {h} : inTransaction(g) => rv[g].id # id

\* PATCH /api/reviews/[id] with isPublished in the body (or, with the body
\* "omitted", with isVerified only), up to the transaction.
ModerateReviewCheck(session, id) ==
    IF session = NoSession THEN "r401"
    ELSE IF ~reviewExists(id) THEN "r404"
    ELSE IF role[session] # "SYSTEM_ADMIN" THEN "r403"
    ELSE "commit"

\* The checks, the transaction's review.update and its findMany.
ModerateReviewBegin(h, session, id, isPublished) ==
    /\ rv[h].pc = "idle"
    /\ rowIsFree(h, id)
    /\ ReviewGoto(h, ModerateReviewCheck(session, id),
                  withSeen(ReviewCall("moderate", id, "none", 0, isPublished)))
    /\ UNCHANGED <<reviewRows, stats>>

\* PATCH /api/reviews/[id] by the owner, up to the transaction.  Every review
\* is younger than the 30 days of canEditReview.
UpdateReviewCheck(session, id) ==
    IF session = NoSession THEN "r401"
    ELSE IF ~reviewExists(id) THEN "r404"
    ELSE IF reviewRows[id].userId # session THEN "r403"
    ELSE "commit"

UpdateReviewBegin(h, session, id, rating) ==
    /\ rv[h].pc = "idle"
    /\ rowIsFree(h, id)
    /\ ReviewGoto(h, UpdateReviewCheck(session, id),
                  withSeen(ReviewCall("update", id, "none", rating, "none")))
    /\ UNCHANGED <<reviewRows, stats>>

\* DELETE /api/reviews/[id] up to the transaction.
DeleteReviewCheck(session, id) ==
    IF session = NoSession THEN "r401"
    ELSE IF ~reviewExists(id) THEN "r404"
    ELSE IF reviewRows[id].userId # session /\ role[session] # "SYSTEM_ADMIN" THEN "r403"
    ELSE "commit"

DeleteReviewBegin(h, session, id) ==
    /\ rv[h].pc = "idle"
    /\ rowIsFree(h, id)
    /\ ReviewGoto(h, DeleteReviewCheck(session, id),
                  withSeen(ReviewCall("delete", id, "none", 0, "none")))
    /\ UNCHANGED <<reviewRows, stats>>

\* The create's transaction up to its findMany: review.create, then the
\* committed rows and its own.
CreateReviewTx(h) ==
    /\ rv[h].pc = "tx"
    /\ ReviewGoto(h, "commit", withSeen(rv[h]))
    /\ UNCHANGED <<reviewRows, stats>>

\* company.update and the commit.
ReviewTxCommit(h) ==
    /\ rv[h].pc = "commit"
    /\ newStats(rv[h]).averageRating # NaN
    /\ reviewRows' = written(reviewRows, rv[h])
    /\ stats' = newStats(rv[h])
    /\ ReviewGoto(h, IF rv[h].op = "create" THEN "r201" ELSE "r200", rv[h])

\* company.update is handed NaN: the client stores it, or it refuses the
\* value and the transaction is rolled back.
ReviewTxNaN(h) ==
    /\ rv[h].pc = "commit"
    /\ newStats(rv[h]).averageRating = NaN
    /\ \/ /\ reviewRows' = written(reviewRows, rv[h])
          /\ stats' = newStats(rv[h])
          /\ ReviewGoto(h, "r200", rv[h])
       \/ /\ ReviewGoto(h, "r500", rv[h])
          /\ UNCHANGED <<reviewRows, stats>>

ReviewSessions == {"alice", "carol", "bob", "dave", NoSession}

ReviewNext ==
    \/ \E h \in Procs, s \in ReviewSessions, rating \in ReviewRatings :
           CreateReviewBegin(h, s, rating)
    \/ \E h \in Procs, s \in ReviewSessions, id \in ReviewIds,
          isPublished \in ModerationBodies :
           ModerateReviewBegin(h, s, id, isPublished)
    \/ \E h \in Procs, s \in ReviewSessions, id \in ReviewIds,
          rating \in ReviewRatings \cup {Omitted} :
           UpdateReviewBegin(h, s, id, rating)
    \/ \E h \in Procs, s \in ReviewSessions, id \in ReviewIds :
           DeleteReviewBegin(h, s, id)
    \/ \E h \in Procs : CreateReviewTx(h)
    \/ \E h \in Procs : ReviewTxCommit(h)
    \/ \E h \in Procs : ReviewTxNaN(h)

ReviewSpec == Init /\ [][ReviewNext]_vars

\* ------------------------------------------------------------- claims
\* Rows of request r that exist.
RowsOf(r) == {k \in Keys : k.requestId = r /\ proposals[k].status # NoRow}

\* Rows of request r in status st.
RowsIn(r, st) == {k \in Keys : k.requestId = r /\ proposals[k].status = st}

\* The other rows of k's request.
Siblings(k) == RowsOf(k.requestId) \ {k}

\* Slot h takes the step that ends its select transaction.
EndsSelectTx(h) == pc[h] = "sel_tx" /\ pc'[h] = "idle"

\* Slot h takes its PATCH write step.
EndsPatchWrite(h) == pc[h] = "patch_write" /\ pc'[h] = "idle"

\* Slot h takes a step of a submission that has passed its first checks.
SubmitStep(h) == pc[h] \in {"sub_find", "sub_upsert"} /\ pc'[h] # pc[h]

\* A select call made in the current state is refused.
SelectRefused(session, k) == SelectCheck(session, k) \in Refusals

\* C1: under any interleaving of submit, select and status update, each
\* request has at most one proposal whose status is SELECTED.
C1_AtMostOneSelected ==
    \A r \in Requests : Cardinality(RowsIn(r, "SELECTED")) <= 1

\* C2: if some proposal of a request is SELECTED then every other proposal of
\* that request is REJECTED (none is left PENDING or RESPONDED).
C2_SelectedImpliesSiblingsRejected ==
    \A k \in Keys :
        proposals[k].status = "SELECTED" =>
            \A q \in Siblings(k) : proposals[q].status = "REJECTED"

\* C3: when the request is PUBLISHED and all its N proposals are RESPONDED, a
\* select of proposal k that commits leaves k SELECTED, the other N-1 REJECTED
\* and the request CLOSED; and in the state a committed select leaves, and in
\* every state a database write leaves with the request CLOSED, every select
\* call on a proposal of that request is refused (a refused call writes
\* nothing: it is the begin step of the handler, which only reads).
C3_SelectExclusiveAndNotRepeatable ==
    [][/\ \A h \in Procs :
            LET k == call[h].key
                r == k.requestId
            IN  (EndsSelectTx(h) /\ dbVars' # dbVars) =>
                    /\ (reqStatus[r] = "PUBLISHED" /\ RowsOf(r) = RowsIn(r, "RESPONDED"))
                       => /\ proposals'[k].status = "SELECTED"
                          /\ \A q \in Siblings(k) : proposals'[q].status = "REJECTED"
                          /\ reqStatus'[r] = "CLOSED"
                    /\ \A s \in Callers, q \in Keys :
                           q.requestId = r => SelectRefused(s, q)'
       /\ dbVars' # dbVars =>
              \A q \in Keys : reqStatus'[q.requestId] = "CLOSED" =>
                  \A s \in Callers : SelectRefused(s, q)'
      ]_vars

\* C3 witness: a select of c1 has committed over two RESPONDED proposals.
C3_Witness ==
    /\ reqStatus["r1"] = "CLOSED"
    /\ proposals[[requestId |-> "r1", companyId |-> "c1"]].status = "SELECTED"
    /\ proposals[[requestId |-> "r1", companyId |-> "c1"]].selectedAt = closedAt["r1"]
    /\ proposals[[requestId |-> "r1", companyId |-> "c2"]].status = "REJECTED"
    /\ \A h \in Procs : pc[h] = "idle"

\* C4: of two concurrent selects on different proposals of one request, the
\* one whose transaction runs second (the request is already CLOSED and
\* another proposal SELECTED) aborts and writes nothing.
C4_ConcurrentSelectLoserAborts ==
    [][\A h \in Procs :
          (/\ EndsSelectTx(h)
           /\ reqStatus[call[h].key.requestId] = "CLOSED"
           /\ \E q \in Siblings(call[h].key) : proposals[q].status = "SELECTED")
          => UNCHANGED dbVars
      ]_vars

\* C5: the three writes of a selection are all-or-nothing: the step that ends
\* a select transaction either applies all of them (target SELECTED with
\* selectedAt, every sibling that was RESPONDED now REJECTED, request CLOSED
\* with closedAt) or, when the transaction fails, leaves the database as it
\* was; and while the transaction is pending its slot has written nothing.
C5_SelectionAllOrNothing ==
    [][\A h \in Procs :
          LET k == call[h].key
              r == k.requestId
          IN  /\ EndsSelectTx(h) =>
                  \/ UNCHANGED dbVars
                  \/ /\ proposals'[k].status = "SELECTED"
                     /\ proposals'[k].selectedAt = now
                     /\ \A q \in Siblings(k) :
                            proposals[q].status = "RESPONDED"
                                => proposals'[q].status = "REJECTED"
                     /\ reqStatus'[r] = "CLOSED"
                     /\ closedAt'[r] = now
              /\ (pc[h] = "idle" /\ pc'[h] = "sel_tx") => UNCHANGED dbVars
      ]_vars

\* C5 witness: a committed selection, its two stamps taken in the same step
\* after the clock has advanced, with the sibling rejected.
C5_Witness ==
    \E k \in Keys :
        /\ proposals[k].status = "SELECTED"
        /\ reqStatus[k.requestId] = "CLOSED"
        /\ proposals[k].selectedAt = MaxClock
        /\ closedAt[k.requestId] = MaxClock
        /\ \E q \in Siblings(k) : proposals[q].status = "REJECTED"

\* C6: once a proposal is SELECTED or REJECTED no step changes it.
C6_TerminalNeverChanges ==
    [][\A k \in Keys :
          proposals[k].status \in {"SELECTED", "REJECTED"}
              => proposals'[k] = proposals[k]
      ]_vars

\* C7: a proposal becomes SELECTED only in a step whose pre-state has it
\* RESPONDED and its request PUBLISHED.
C7_SelectedOnlyFromRespondedOpen ==
    [][\A k \in Keys :
          (proposals'[k].status = "SELECTED" /\ proposals[k].status # "SELECTED")
              => /\ proposals[k].status = "RESPONDED"
                 /\ reqStatus[k.requestId] = "PUBLISHED"
      ]_vars

\* C8: the status-update operation changes a proposal's status to REJECTED
\* only: a body asking for PENDING, RESPONDED or SELECTED changes no status.
C8_PatchOnlyRejects ==
    [][\A h \in Procs :
          EndsPatchWrite(h) =>
              \A k \in Keys :
                  proposals'[k].status # proposals[k].status
                      => proposals'[k].status = "REJECTED"
      ]_vars

\* C9: a reject is applied only to a proposal that is RESPONDED, and it writes
\* that one row: every other proposal and the request stay as they were.
C9_RejectOnlyFromRespondedSingleRecord ==
    [][\A h \in Procs :
          (EndsPatchWrite(h) /\ call[h].body = "REJECTED") =>
              /\ proposals[call[h].key].status = "RESPONDED"
              /\ \A q \in Keys \ {call[h].key} : proposals'[q] = proposals[q]
              /\ UNCHANGED <<reqStatus, closedAt>>
      ]_vars

\* C10: while the proposal of a (request, company) pair is SELECTED or
\* REJECTED, every step of a submission for that pair ends the submission and
\* leaves the proposal (status, cost, respondedAt) unchanged.
C10_NoResubmitAfterTerminal ==
    [][\A h \in Procs :
          (SubmitStep(h) /\ proposals[call[h].key].status \in {"SELECTED", "REJECTED"})
              => /\ pc'[h] = "idle"
                 /\ proposals'[call[h].key] = proposals[call[h].key]
      ]_vars

\* Slot h takes the step that reads the pair's existing row.
EndsSubmitFind(h) == pc[h] = "sub_find" /\ pc'[h] # "sub_find"

\* Slot h takes the step that runs the upsert.
EndsSubmitUpsert(h) == pc[h] = "sub_upsert" /\ pc'[h] = "idle"

\* C11 as stated: a submission with a valid body for a pair whose row is
\* PENDING or RESPONDED passes the existing-row check and goes on to write.
C11_UpdatesPendingOrResponded ==
    [][\A h \in Procs :
          (/\ EndsSubmitFind(h)
           /\ proposals[call[h].key].status \in {"PENDING", "RESPONDED"}
           /\ call[h].body > 0)
          => pc'[h] = "sub_upsert"
      ]_vars

\* C11 amended: a submission with a valid body for a pair whose row is
\* PENDING goes on to write, and one whose row is RESPONDED is refused and
\* writes nothing; the write leaves the row RESPONDED with the cost of the
\* body, respondedAt set to the current time and every other column and row
\* as it was; so the write of a body equal to what the row holds (a second
\* submission that read the row before the first wrote) changes respondedAt
\* at most.
C11_UpdatesPendingOnly ==
    [][\A h \in Procs :
          LET k == call[h].key
          IN  /\ (EndsSubmitFind(h) /\ call[h].body > 0) =>
                    /\ proposals[k].status = "PENDING" => pc'[h] = "sub_upsert"
                    /\ proposals[k].status = "RESPONDED" =>
                           (pc'[h] = "idle" /\ UNCHANGED dbVars)
              /\ EndsSubmitUpsert(h) =>
                    /\ proposals'[k].status = "RESPONDED"
                    /\ proposals'[k].estimatedCost = call[h].body
                    /\ proposals'[k].respondedAt = now
                    /\ proposals'[k].selectedAt = proposals[k].selectedAt
                    /\ \A q \in Keys \ {k} : proposals'[q] = proposals[q]
                    /\ UNCHANGED <<reqStatus, closedAt>>
                    /\ (proposals[k].status = "RESPONDED"
                        /\ proposals[k].estimatedCost = call[h].body)
                       => proposals' = [proposals EXCEPT ![k].respondedAt = now]
      ]_vars

\* C11 witness: a submission with a new cost has passed the check on a
\* PENDING row that holds another cost and an earlier respondedAt, and is
\* about to write.
C11_Witness ==
    \E h \in Procs :
        /\ pc[h] = "sub_upsert"
        /\ proposals[call[h].key].status = "PENDING"
        /\ proposals[call[h].key].estimatedCost \notin {Null, call[h].body}
        /\ proposals[call[h].key].respondedAt < now

\* C12: the step that writes a submission's proposal is taken with the
\* request PUBLISHED and the company verified, and a submission begun on a
\* request that is not PUBLISHED or by a company that is not verified is
\* refused at once; no step of a submission writes otherwise.
C12_WritesOnlyToPublishedByVerified ==
    [][\A h \in Procs :
          LET k == call[h].key
          IN  /\ (EndsSubmitUpsert(h) /\ proposals' # proposals) =>
                    /\ reqStatus[k.requestId] = "PUBLISHED"
                    /\ isVerified[k.companyId]
              /\ (pc[h] = "idle" /\ pc'[h] = "sub_find") =>
                    /\ reqStatus'[call'[h].key.requestId] = "PUBLISHED"
                    /\ isVerified[call'[h].key.companyId]
                    /\ UNCHANGED dbVars
      ]_vars

\* C13: the table holds at most one row for each (request, company) pair.
C13_OneRowPerPair == \A k \in Keys : pairRows[k] <= 1

\* C13 witness: a row is stored for a pair while another upsert for the same
\* pair, which read before that row was stored, is about to insert.
C13_Witness ==
    \E h \in Procs :
        /\ ups[h].at = "insert"
        /\ pairRows[ups[h].key] = 1

\* The call of fn has returned.
Done(fn) == ret.fn = fn

\* The total the algorithm gives a company for the request of the call.
TotalOf(company) == calculateMatchScore(company, args.request, args.config).total

\* The threshold and the limit in force: the config's, or the defaults.
MinScoreInForce == IF args.config.minScore = Omitted THEN 30 ELSE args.config.minScore

MaxResultsInForce == IF args.config.maxResults = Omitted THEN 20 ELSE args.config.maxResults

\* The position of a company in the list given to findMatchingCompanies.
InputIndex(company) == CHOOSE p \in 1..Len(args.companies) : args.companies[p] = company

\* The companies of the result.
ReturnedCompanies == {ret.value[i].company : i \in 1..Len(ret.value)}

\* C14: every company findMatchingCompanies returns has acceptsNewProjects
\* true, whatever the filters argument is and also when it is not given.
C14_ReturnedAcceptNewProjects ==
    Done("findMatchingCompanies") =>
        \A i \in 1..Len(ret.value) : ret.value[i].company.acceptsNewProjects

\* C15: the result of findMatchingCompanies holds companies of the input with
\* their scores, none with a total below minScore; the totals do not increase
\* along the list; the list is no longer than maxResults; and a company of
\* the input that passed the filters applied and reached minScore but is not
\* in the result has a total no greater than any total in the result.
C15_ThresholdOrderLimit ==
    Done("findMatchingCompanies") =>
        LET result == ret.value
            qualifies(c) ==
                /\ args.filters.given => passesFilters(c, args.filters)
                /\ TotalOf(c) >= MinScoreInForce
        IN  /\ \A i \in 1..Len(result) :
                   /\ result[i].company \in Range(args.companies)
                   /\ result[i].matchScore.total = TotalOf(result[i].company)
                   /\ result[i].matchScore.total >= MinScoreInForce
            /\ \A i, j \in 1..Len(result) :
                   i < j => result[i].matchScore.total >= result[j].matchScore.total
            /\ Len(result) <= MaxResultsInForce
            /\ \A c \in Range(args.companies) \ ReturnedCompanies :
                   qualifies(c) =>
                       \A i \in 1..Len(result) : TotalOf(c) <= result[i].matchScore.total

\* C15 witness: a limit of 2 cut a qualifying company off a result whose
\* first entry, of a greater total than its second, was last in the input.
C15_Witness ==
    /\ Done("findMatchingCompanies")
    /\ args.config.maxResults = 2
    /\ Len(ret.value) = 2
    /\ ret.value[1].matchScore.total > ret.value[2].matchScore.total
    /\ ret.value[1].company = args.companies[Len(args.companies)]
    /\ \E c \in Range(args.companies) \ ReturnedCompanies : TotalOf(c) >= MinScoreInForce

\* C16: two companies of the result with equal totals stand in the order in
\* which they stood in the input list.
C16_TiesKeepInputOrder ==
    Done("findMatchingCompanies") =>
        \A i, j \in 1..Len(ret.value) :
            (i < j /\ ret.value[i].matchScore.total = ret.value[j].matchScore.total)
                => InputIndex(ret.value[i].company) < InputIndex(ret.value[j].company)

\* C16 witness: b and a, of equal total, are returned in their input order b
\* then a, behind a company that stood after b in the input.
C16_Witness ==
    /\ Done("findMatchingCompanies")
    /\ Len(ret.value) = 3
    /\ ret.value[2].company.id = "b"
    /\ ret.value[3].company.id = "a"
    /\ ret.value[2].matchScore.total = ret.value[3].matchScore.total
    /\ InputIndex(ret.value[1].company) > InputIndex(ret.value[2].company)

\* C17: calculateMatchScore returns a total equal to the sum of its four
\* sub-scores, with techStackScore in 0..40, specialtyScore in 0..30,
\* budgetScore in 0..20, ratingScore in 0..10 and the total in 0..100.
C17_TotalIsSumWithinRanges ==
    Done("calculateMatchScore") =>
        LET s == ret.value
        IN  /\ s.total = s.techStackScore + s.specialtyScore + s.budgetScore + s.ratingScore
            /\ s.techStackScore \in 0..40
            /\ s.specialtyScore \in 0..30
            /\ s.budgetScore \in 0..20
            /\ s.ratingScore \in 0..10
            /\ s.total \in 0..100

\* C17 witness: the company with React and Node.js, Web Development, 4.5
\* stars and 30 reviews scores 13 + 25 + 10 + 9 = 57 against the web request.
C17_Witness ==
    /\ Done("calculateMatchScore")
    /\ args.request = WebRequest
    /\ args.company.techStacks = <<"React", "Node.js">>
    /\ args.company.averageRating = 45 /\ args.company.reviewCount = 30
    /\ ret.value.techStackScore = 13 /\ ret.value.specialtyScore = 25
    /\ ret.value.budgetScore = 10 /\ ret.value.ratingScore = 9
    /\ ret.value.total = 57

\* The names of a list with their case removed, as a set.
LowerSet(list) == {toLowerCase(list[i]) : i \in 1..Len(list)}

\* C18: with both lists non-empty, calculateTechStackScore returns the
\* integer nearest to 40 * |I| / |U| (a half rounded up), I and U being the
\* intersection and the union of the two lists as sets of names without
\* case, and matched lists the names of I once each.
C18_JaccardOfCaseInsensitiveSets ==
    (/\ Done("calculateTechStackScore")
     /\ Len(args.companyTechStacks) > 0
     /\ Len(args.requestedTechStacks) > 0)
    => LET I == LowerSet(args.companyTechStacks) \cap LowerSet(args.requestedTechStacks)
           U == LowerSet(args.companyTechStacks) \cup LowerSet(args.requestedTechStacks)
           score == ret.value.score
       IN  /\ 2 * Cardinality(U) * score - Cardinality(U) <= 80 * Cardinality(I)
           /\ 80 * Cardinality(I) < 2 * Cardinality(U) * score + Cardinality(U)
           /\ Range(ret.value.matched) = I
           /\ Len(ret.value.matched) = Cardinality(I)

\* C18 witness: company {React, Node} against request {react, vue} scores 13
\* and matches react.
C18_Witness ==
    /\ Done("calculateTechStackScore")
    /\ args.companyTechStacks = <<"React", "Node">>
    /\ args.requestedTechStacks = <<"react", "vue">>
    /\ ret.value = [score |-> 13, matched |-> <<"react">>]

\* C19: calculateTechStackScore returns a score in 0..40; with an empty
\* requested list the score is 40 and nothing is matched, whatever the
\* company list; with an empty company list and a non-empty requested list
\* the score is 0 and nothing is matched.
C19_TechStackRangeAndEmptyLists ==
    Done("calculateTechStackScore") =>
        /\ ret.value.score \in 0..40
        /\ Len(args.requestedTechStacks) = 0
               => ret.value = [score |-> 40, matched |-> <<>>]
        /\ (Len(args.companyTechStacks) = 0 /\ Len(args.requestedTechStacks) > 0)
               => ret.value = [score |-> 0, matched |-> <<>>]

\* C19 witness: both lists empty, the score is 40.
C19_Witness ==
    /\ Done("calculateTechStackScore")
    /\ Len(args.companyTechStacks) = 0
    /\ Len(args.requestedTechStacks) = 0
    /\ ret.value.score = 40

\* C20: calculateSpecialtyScore returns at most 30, and 0 for a company
\* without specialties; otherwise min(primary + secondary, 30), primary
\* being 15 when a company specialty contains a keyword of the project type
\* and 0 when none does, and secondary being 10 when no specialty is
\* requested and else 15 times the fraction of the requested specialties
\* that contain or are contained in a company specialty (case set aside),
\* rounded.
C20_SpecialtyScoreFormula ==
    Done("calculateSpecialtyScore") =>
        LET company == LowerSet(args.companySpecialties)
            requested == lower(args.requestedSpecialties)
            matching == {i \in 1..Len(requested) :
                            \E cs \in company :
                                includes(cs, requested[i]) \/ includes(requested[i], cs)}
            primary == IF \E keyword \in Range(projectTypeMap(args.projectType)) :
                              \E cs \in company : includes(cs, keyword)
                       THEN 15 ELSE 0
            secondary == IF Len(requested) > 0
                         THEN round(15 * Cardinality(matching), Len(requested))
                         ELSE 10
        IN  /\ ret.value.score <= 30
            /\ secondary \in 0..15
            /\ ret.value.score = IF Len(args.companySpecialties) = 0 THEN 0
                                 ELSE Min(primary + secondary, 30)

\* The range ratio (max - min) / midpoint of the call is below p / q.
RatioBelow(p, q) ==
    2 * q * (args.requestBudgetMax - args.requestBudgetMin)
        < p * (args.requestBudgetMin + args.requestBudgetMax)

C22_LabelAgreesWithBand ==
    Done("calculateBudgetScore") =>
        LET score == ret.value.score
            label == ret.value.compatibility
        IN  /\ label \in {"perfect", "good", "acceptable", "mismatch"}
            /\ label = "perfect" => score \in 15..20
            /\ label = "good" => score \in 10..14
            /\ label = "acceptable" => score \in 5..9
            /\ label = "mismatch" => score \in 0..4

\* C23: calculateRatingScore returns 5 for a company without reviews, and
\* else the integer nearest to 8 * averageRating / 5 + bonus (a half rounded
\* up) but not above 10, the bonus being 2, 1.5, 1, 0.5 or 0 for a review
\* count of at least 50, 20, 10, 5 or less; the result lies in 0..10.  In
\* hundredths of a point, with the rating in tenths of a star.
C23_RatingScoreFormula ==
    Done("calculateRatingScore") =>
        LET n == args.reviewCount
            bonus == IF n >= 50 THEN 200 ELSE IF n >= 20 THEN 150
                     ELSE IF n >= 10 THEN 100 ELSE IF n >= 5 THEN 50 ELSE 0
            points == 16 * args.averageRating + bonus
        IN  /\ ret.value \in 0..10
            /\ n = 0 => ret.value = 5
            /\ n > 0 => \E nearest \in 0..11 :
                            /\ 100 * nearest - 50 <= points
                            /\ points < 100 * nearest + 50
                            /\ ret.value = Min(nearest, 10)

\* C23 witness: 2.5 stars over 5 reviews is 4 + 0.5 points, rounded up to 5;
\* the call has returned.
C23_Witness ==
    /\ Done("calculateRatingScore")
    /\ args.averageRating = 25
    /\ args.reviewCount = 5
    /\ ret.value = 5

\* The positions of the page's input whose proposal is not PENDING and
\* carries a cost, respectively a match score.
WithCost ==
    {i \in 1..Len(args.proposals) :
        args.proposals[i].status # "PENDING" /\ args.proposals[i].estimatedCost # Null}

WithScore ==
    {i \in 1..Len(args.proposals) :
        args.proposals[i].status # "PENDING" /\ args.proposals[i].total # NoScore}

RECURSIVE SumOver(_, _)
\* The sum of f over a finite set of positions.
SumOver(S, f) ==
    IF S = {} THEN 0 ELSE LET i == CHOOSE i \in S : TRUE IN f[i] + SumOver(S \ {i}, f)

\* C25: the comparison metrics over the non-PENDING proposals leave out the
\* proposals without a cost (without a match score): minCost and maxCost are
\* the least and the greatest of the costs present, minCost <= avgCost <=
\* maxCost, avgCost times the number of costs present is their sum, avgScore
\* likewise over the scores present, and a metric nothing contributes to is 0.
C25_AggregatesSkipMissing ==
    (Done("comparisonMetrics") /\ ret.value.rendered) =>
        LET m == ret.value
            cost == [i \in 1..Len(args.proposals) |-> args.proposals[i].estimatedCost]
            total == [i \in 1..Len(args.proposals) |-> args.proposals[i].total]
        IN  /\ WithCost # {} =>
                   /\ m.minCost \in {cost[i] : i \in WithCost}
                   /\ m.maxCost \in {cost[i] : i \in WithCost}
                   /\ \A i \in WithCost : m.minCost <= cost[i] /\ cost[i] <= m.maxCost
                   /\ m.avgCost.den = Cardinality(WithCost)
                   /\ m.avgCost.num = SumOver(WithCost, cost)
                   /\ m.minCost * m.avgCost.den <= m.avgCost.num
                   /\ m.avgCost.num <= m.maxCost * m.avgCost.den
            /\ WithCost = {} =>
                   m.minCost = 0 /\ m.maxCost = 0 /\ m.avgCost.num = 0
            /\ WithScore # {} =>
                   /\ m.avgScore.den = Cardinality(WithScore)
                   /\ m.avgScore.num = SumOver(WithScore, total)
            /\ WithScore = {} => m.avgScore.num = 0

\* C25 witness: of two proposals shown, one has no cost and the other costs
\* 3: minimum, maximum and average are 3.
C25_Witness ==
    /\ Done("comparisonMetrics")
    /\ Len(args.proposals) = 2
    /\ \A i \in 1..2 : args.proposals[i].status = "RESPONDED"
    /\ args.proposals[1].estimatedCost = Null
    /\ args.proposals[2].estimatedCost = 3
    /\ ret.value.minCost = 3 /\ ret.value.maxCost = 3
    /\ ret.value.avgCost = [num |-> 3, den |-> 1]

\* C24: two calls of calculateMatchScore, and two calls of
\* findMatchingCompanies with the same minScore and maxResults, whose configs
\* differ in the four weights only return the same result.
C24_WeightsAreInert ==
    (Done("calculateMatchScore twice") \/ Done("findMatchingCompanies twice")) =>
        /\ \A f \in DOMAIN DEFAULT_CONFIG \ WeightFields : args.config[f] = args.other[f]
        /\ ret.value.first = ret.value.second

\* C24 witness: a call with every weight on the rating and a call with the
\* default weights have returned the same list of three matches.
C24_Witness ==
    /\ args.config.ratingWeight = 100
    /\ args.other.ratingWeight = Omitted
    /\ Done("findMatchingCompanies twice")
    /\ Len(ret.value.first) = 3
    /\ ret.value.first = ret.value.second

\* C26: a company whose reviewCount is 0 has averageRating 0, and no
\* operation stores the quotient 0 / 0 as the average.
C26_NoReviewsNoRating ==
    /\ stats.averageRating # NaN
    /\ stats.reviewCount = 0 => stats.averageRating = 0

\* C27: no two reviews are by the same user for the same company.
C27_OneReviewPerUserAndCompany ==
    \A i \in 1..Len(reviewRows), j \in 1..Len(reviewRows) :
        (/\ ~reviewRows[i].deleted
         /\ ~reviewRows[j].deleted
         /\ reviewRows[i].userId = reviewRows[j].userId
         /\ reviewRows[i].companyId = reviewRows[j].companyId) => i = j

\* C28: the editable fields of a request that is not DRAFT do not change.
C28_PublishedIsFrozen ==
    [][\A r \in Requests : reqStatus[r] # "DRAFT" => reqData'[r] = reqData[r]]_vars

\* C29: a request's status only moves forward, DRAFT to PUBLISHED to
\* CLOSED, and never back; and a request is CLOSED exactly when exactly one
\* of its proposals is SELECTED.
C29_ForwardAndClosedIffSelected ==
    [][\A r \in Requests :
          /\ reqStatus[r] = "PUBLISHED" => reqStatus'[r] \in {"PUBLISHED", "CLOSED"}
          /\ reqStatus[r] = "CLOSED" => reqStatus'[r] = "CLOSED"
          /\ reqStatus'[r] = "CLOSED" <=>
                 Cardinality({k \in Keys : /\ k.requestId = r
                                           /\ proposals'[k].status = "SELECTED"}) = 1]_vars

\* C30: a proposal's selectedAt is set exactly when its status is SELECTED,
\* and every RESPONDED, SELECTED or REJECTED proposal has its respondedAt set.
C30_TimestampsFollowStatus ==
    \A k \in Keys :
        /\ (proposals[k].selectedAt # Null) <=> (proposals[k].status = "SELECTED")
        /\ proposals[k].status \in {"RESPONDED", "SELECTED", "REJECTED"} =>
               proposals[k].respondedAt # Null

====
